---------------------------- MODULE Spec2Model ----------------------------
(***************************************************************************)
(* timeturner: the snapshot store (Database) of timeturner_app.py and the *)
(* unit of work TimeTurnerApp.__call__ wraps around each request.         *)
(*                                                                         *)
(* Time is counted in whole seconds.  A calendar date is a day number and *)
(* the datetime of its midnight is day * DAY.                             *)
(***************************************************************************)
EXTENDS Integers, Sequences, FiniteSets, TLC

(***************************************************************************)
(* Program constants.                                                      *)
(***************************************************************************)
\* datetime.timedelta(seconds=60): the width of the read window
WINDOW == 60
\* datetime.timedelta(days=14): the retention horizon, in days
HORIZON_DAYS == 14
\* datetime.timedelta(days=1), in seconds
DAY == 86400
\* the code point str.decode(..., 'replace') substitutes for invalid input
REPLACEMENT_CHARACTER == 65533

HORIZON == HORIZON_DAYS * DAY

(***************************************************************************)
(* Bounds of the model.                                                    *)
(***************************************************************************)
\* the store never holds more than MaxRows snapshots after a request
MaxRows == 2
\* the number of write requests that run concurrently
MaxWriters == 2
\* the number of pieces a request body is put together from
MaxPieces == 3

(***************************************************************************)
(* The inputs of the requests.                                             *)
(***************************************************************************)
\* the timestamps written and asked for: 00:00:00 and 00:00:30 share a
\* window and a minute, 00:01:00 is the first instant outside that window,
\* and the fourth is midnight of the next day
TimeStamps == {0, 30, 60, DAY}
Days == {0, 1}
\* the clock: at HORIZON no timestamp is old; at HORIZON + 30 timestamp 0 is
\* old and 30 is exactly 14 days old; at HORIZON + DAY all of day 0 is old
ClockValues == {HORIZON, HORIZON + 30, HORIZON + DAY}
\* the (hostname, title) pairs that are written and asked for
Sources == {<<"myhost", "other stuff">>, <<"myhost", "some stuff">>,
            <<"otherhost", "some stuff">>}
\* what concurrent writers write: at the clock values above both timestamps
\* are live, or only the later one, or neither
RaceTimeStamps == {0, 30}
RaceSources == {<<"myhost", "some stuff">>, <<"otherhost", "some stuff">>}
\* request bodies: 'hi' and the UTF-8 encoding of U+1F608
RawContents == {<<104, 105>>, <<240, 159, 152, 136>>}

\* what request bodies are put together from: 'h', '&', the UTF-8 encodings
\* of U+00E9 and U+1F608, a byte that starts no UTF-8 sequence, and the
\* first two bytes of a sequence of four
Pieces ==
    {<<104>>, <<38>>, <<195, 169>>, <<240, 159, 152, 136>>, <<255>>,
     <<240, 159>>}

RECURSIVE Concatenation(_)
Concatenation(pieces) ==
    IF pieces = <<>> THEN <<>>
    ELSE Head(pieces) \o Concatenation(Tail(pieces))

\* the request bodies of up to MaxPieces pieces
Bodies ==
    {Concatenation(pieces) :
        pieces \in UNION {[1..n -> Pieces] : n \in 0..MaxPieces}}

VARIABLES
    db,     \* the committed rows of table 'snapshot'
    now,    \* what the injected clock (datetime_now) returns
    last,   \* the latest request and the response it got
    session \* concurrent requests: the unit of work of each writer

vars == <<db, now, last, session>>

(***************************************************************************)
(* csv_contents.decode('utf-8', 'replace').encode('ascii',                *)
(* 'xmlcharrefreplace'), as the str and unicode codecs of CPython 2.7 do  *)
(* it.  Bytes and characters are their numbers.                            *)
(***************************************************************************)
IsContinuation(b) == b >= 128 /\ b <= 191

\* how many bytes a sequence that starts with byte b takes; 0: b starts none
SequenceLength(b) ==
    IF b < 128 THEN 1
    ELSE IF b >= 194 /\ b <= 223 THEN 2
    ELSE IF b >= 224 /\ b <= 239 THEN 3
    ELSE IF b >= 240 /\ b <= 244 THEN 4
    ELSE 0

\* the second byte of a sequence is further restricted after E0, F0 and F4
\* (the decoder of 2.7 takes the surrogates that follow ED)
SecondByteOk(b0, b1) ==
    /\ IsContinuation(b1)
    /\ (b0 = 224 => b1 >= 160)
    /\ (b0 = 240 => b1 >= 144)
    /\ (b0 = 244 => b1 <= 143)

\* bytes starts with a valid sequence of n bytes
ValidSequence(bytes, n) ==
    /\ n > 0
    /\ Len(bytes) >= n
    /\ n >= 2 => SecondByteOk(bytes[1], bytes[2])
    /\ \A i \in 3..n : IsContinuation(bytes[i])

\* the bytes one decoding error covers: the start byte and the continuation
\* bytes right after it, short of a whole sequence of n bytes
RECURSIVE ErrorLength(_, _, _)
ErrorLength(bytes, n, k) ==
    IF k >= n - 1 \/ k >= Len(bytes) THEN k
    ELSE IF ~IsContinuation(bytes[k + 1]) THEN k
    ELSE ErrorLength(bytes, n, k + 1)

CodePoint(bytes, n) ==
    IF n = 1 THEN bytes[1]
    ELSE IF n = 2 THEN (bytes[1] - 192) * 64 + (bytes[2] - 128)
    ELSE IF n = 3 THEN (bytes[1] - 224) * 4096 + (bytes[2] - 128) * 64
                       + (bytes[3] - 128)
    ELSE (bytes[1] - 240) * 262144 + (bytes[2] - 128) * 4096
         + (bytes[3] - 128) * 64 + (bytes[4] - 128)

RECURSIVE Drop(_, _)
Drop(s, k) == IF k = 0 \/ s = <<>> THEN s ELSE Drop(Tail(s), k - 1)

\* bytes.decode('utf-8', 'replace'): the code points
RECURSIVE decode(_)
decode(bytes) ==
    IF bytes = <<>> THEN <<>>
    ELSE LET n == SequenceLength(bytes[1])
         IN  IF ValidSequence(bytes, n)
             THEN <<CodePoint(bytes, n)>> \o decode(Drop(bytes, n))
             ELSE <<REPLACEMENT_CHARACTER>>
                  \o decode(Drop(bytes, ErrorLength(bytes, n, 1)))

RECURSIVE Decimal(_)
Decimal(n) ==
    IF n < 10 THEN <<48 + n>> ELSE Decimal(n \div 10) \o <<48 + (n % 10)>>

\* '&#' decimal ';'
CharRef(c) == <<38, 35>> \o Decimal(c) \o <<59>>

\* text.encode('ascii', 'replace'): '?' for a character outside ASCII
RECURSIVE encode_replace(_)
encode_replace(text) ==
    IF text = <<>> THEN <<>>
    ELSE (IF Head(text) < 128 THEN <<Head(text)>> ELSE <<63>>)
         \o encode_replace(Tail(text))

\* text.encode('ascii', 'xmlcharrefreplace')
RECURSIVE encode(_)
encode(text) ==
    IF text = <<>> THEN <<>>
    ELSE (IF Head(text) < 128 THEN <<Head(text)>> ELSE CharRef(Head(text)))
         \o encode(Tail(text))

cleaned_csv_contents(csv_contents) == encode(decode(csv_contents))

(***************************************************************************)
(* class Snapshot: a row is a record [timestamp, hostname, title,         *)
(* contents].  The column snapshot_id is left out: the engine assigns it  *)
(* and no statement of Database reads it.                                  *)
(***************************************************************************)
Snapshot(timestamp, hostname, title, contents) ==
    [timestamp |-> timestamp, hostname |-> hostname, title |-> title,
     contents |-> contents]

\* the table declared without its UniqueConstraint
UniqueConstraintMissing(rows, timestamp, hostname, title) == FALSE

\* UniqueConstraint('timestamp', 'hostname', 'title'): would a row with this
\* key violate it
UniqueConstraintViolated(rows, timestamp, hostname, title) ==
    \E s \in rows : /\ s.timestamp = timestamp
                    /\ s.hostname = hostname
                    /\ s.title = title

\* the bulk delete with <= for <
clean_old_snapshots_inclusive(rows, datetime_now) ==
    {s \in rows : ~(s.timestamp <= datetime_now - HORIZON)}

\* Database._clean_old_snapshots: the rows the bulk delete leaves
clean_old_snapshots(rows, datetime_now) ==
    LET oldest_allowed_timestamp == datetime_now - HORIZON
    IN  {s \in rows : ~(s.timestamp < oldest_allowed_timestamp)}

\* the INSERT that session.flush() emits for the added Snapshot
flush(rows, timestamp, hostname, title, contents) ==
    rows \cup {Snapshot(timestamp, hostname, title, contents)}

\* add_snapshot with session.merge for session.add: a row with the same key
\* is overwritten
add_snapshot_merge(rows, datetime_now, timestamp, hostname, title, csv) ==
    [error |-> "none",
     rows  |-> clean_old_snapshots(
                   {s \in rows : ~(/\ s.timestamp = timestamp
                                   /\ s.hostname = hostname
                                   /\ s.title = title)}
                   \cup {Snapshot(timestamp, hostname, title,
                                  cleaned_csv_contents(csv))},
                   datetime_now)]

\* add_snapshot with _clean_old_snapshots called first: the row it inserts
\* is not swept
add_snapshot_sweep_first(rows, datetime_now, timestamp, hostname, title, csv) ==
    LET swept == clean_old_snapshots(rows, datetime_now)
    IN  IF UniqueConstraintViolated(swept, timestamp, hostname, title)
        THEN [error |-> "DuplicateSnapshotError", rows |-> rows]
        ELSE [error |-> "none",
              rows  |-> flush(swept, timestamp, hostname, title,
                              cleaned_csv_contents(csv))]

\* Database.add_snapshot on a session that sees rows: the error it raises
\* and the rows the session sees when it returns
add_snapshot(rows, datetime_now, timestamp, hostname, title, csv_contents) ==
    IF UniqueConstraintViolated(rows, timestamp, hostname, title)
    THEN [error |-> "DuplicateSnapshotError", rows |-> rows]
    ELSE [error |-> "none",
          rows  |-> clean_old_snapshots(
                        flush(rows, timestamp, hostname, title,
                              cleaned_csv_contents(csv_contents)),
                        datetime_now)]

(***************************************************************************)
(* The read queries.                                                       *)
(***************************************************************************)
\* sorted(set(...)) of integers
RECURSIVE sorted(_)
sorted(S) ==
    IF S = {} THEN <<>>
    ELSE LET m == CHOOSE x \in S : \A y \in S : x <= y
         IN  <<m>> \o sorted(S \ {m})

\* datetime.date() and datetime.replace(second=0, microsecond=0)
date(timestamp) == timestamp \div DAY

\* the timestamp rounded to the nearest minute
replace_second_rounded(timestamp) == ((timestamp + 30) \div 60) * 60

replace_second_0(timestamp) == timestamp - (timestamp % 60)

\* get_all_days with sorted(..., reverse=True)
get_all_days_descending(rows) ==
    LET days == sorted({date(s.timestamp) : s \in rows})
    IN  [i \in 1..Len(days) |-> days[Len(days) + 1 - i]]

\* Database.get_all_days
get_all_days(rows) == sorted({date(s.timestamp) : s \in rows})

\* get_timestamps without .replace(second=0, microsecond=0)
get_timestamps_seconds(rows, day) ==
    sorted({s.timestamp :
              s \in {r \in rows : /\ day * DAY <= r.timestamp
                                  /\ r.timestamp < (day + 1) * DAY}})

\* Database.get_timestamps
get_timestamps(rows, day) ==
    sorted({replace_second_0(s.timestamp) :
              s \in {r \in rows : /\ day * DAY <= r.timestamp
                                  /\ r.timestamp < (day + 1) * DAY}})

\* the window with < for <= at its start
InWindowExclusive(rows, timestamp) ==
    {s \in rows : /\ timestamp < s.timestamp
                  /\ s.timestamp < timestamp + WINDOW}

\* the rows whose timestamp lies in the window that starts at timestamp
InWindow(rows, timestamp) ==
    {s \in rows : /\ timestamp <= s.timestamp
                  /\ s.timestamp < timestamp + WINDOW}

\* the strings of the model in the engine's (byte-wise) collation order
Collation == <<"myhost", "other stuff", "otherhost", "some stuff">>
Rank(string) == CHOOSE i \in 1..Len(Collation) : Collation[i] = string

\* ORDER BY hostname ASC, title ASC
OrderedBefore(a, b) ==
    \/ Rank(a.hostname) < Rank(b.hostname)
    \/ /\ a.hostname = b.hostname
       /\ Rank(a.title) <= Rank(b.title)

RECURSIVE order_by(_)
order_by(rows) ==
    IF rows = {} THEN <<>>
    ELSE LET s == CHOOSE x \in rows : \A y \in rows : OrderedBefore(x, y)
         IN  <<s>> \o order_by(rows \ {s})

\* get_snapshot_info_at_time with <= for < at the end of the window
get_snapshot_info_at_time_closed(rows, timestamp) ==
    LET query == order_by({s \in rows : /\ timestamp <= s.timestamp
                                        /\ s.timestamp <= timestamp + WINDOW})
    IN  [i \in 1..Len(query) |-> <<query[i].hostname, query[i].title>>]

\* Database.get_snapshot_info_at_time
get_snapshot_info_at_time(rows, timestamp) ==
    LET query == order_by(InWindow(rows, timestamp))
    IN  [i \in 1..Len(query) |-> <<query[i].hostname, query[i].title>>]

\* the filter without the title
filter_by_hostname(rows, hostname, title) ==
    {s \in rows : s.hostname = hostname}

\* .filter_by(hostname=hostname, title=title)
filter_by(rows, hostname, title) ==
    {s \in rows : s.hostname = hostname /\ s.title = title}

\* get_snapshot_contents with Query.first() for Query.one(): of several
\* matching rows it returns one
get_snapshot_contents_first(rows, timestamp, hostname, title) ==
    LET matches == filter_by(InWindow(rows, timestamp), hostname, title)
    IN  IF matches = {}
        THEN [error |-> "NoResultFound", value |-> <<>>]
        ELSE [error |-> "none",
              value |-> (CHOOSE s \in matches : TRUE).contents]

\* Database.get_snapshot_contents: Query.one() raises unless exactly one row
\* matches
get_snapshot_contents(rows, timestamp, hostname, title) ==
    LET matches == filter_by(InWindow(rows, timestamp), hostname, title)
    IN  IF matches = {}
        THEN [error |-> "NoResultFound", value |-> <<>>]
        ELSE IF Cardinality(matches) > 1
        THEN [error |-> "MultipleResultsFound", value |-> <<>>]
        ELSE [error |-> "none",
              value |-> (CHOOSE s \in matches : TRUE).contents]

(***************************************************************************)
(* The unit of work of TimeTurnerApp.__call__: a session per request,     *)
(* committed when the handler returns and rolled back when it raises.     *)
(***************************************************************************)
\* session.commit(): the rows of the session become the committed rows
commit(committed, pending) == pending

\* session.rollback(): the committed rows stay
rollback(committed, pending) == committed

\* lines 230-242: commit after a normal return, rollback after an exception
end_of_request(committed, pending, error) ==
    IF error = "none" THEN commit(committed, pending)
    ELSE rollback(committed, pending)

\* a read query that also runs the retention sweep
rows_after_read_sweeping(rows, datetime_now) ==
    {s \in rows : ~(s.timestamp < datetime_now - HORIZON)}

\* the rows a session sees after one of the four read queries: they emit
\* SELECT statements only
rows_after_read(rows, datetime_now) == rows

(***************************************************************************)
(* Requests served one at a time (werkzeug.serving.run_simple): each is   *)
(* TimeTurnerApp.__call__ from session_factory() to commit or rollback.   *)
(***************************************************************************)
Response(op, timestamp, hostname, title, csv_contents, error, value) ==
    [op |-> op, timestamp |-> timestamp, hostname |-> hostname,
     title |-> title, csv_contents |-> csv_contents, error |-> error,
     value |-> value]

Writers == 1..MaxWriters

\* a unit of work: where its request stands (pc), the request, the rows the
\* session sees once it has written, and how the request ended
Session(pc, timestamp, hostname, title, csv_contents, rows, oldest, error) ==
    [pc |-> pc, timestamp |-> timestamp, hostname |-> hostname,
     title |-> title, csv_contents |-> csv_contents, rows |-> rows,
     oldest_allowed_timestamp |-> oldest, error |-> error]

Idle == Session("idle", 0, "", "", <<>>, {}, 0, "none")

Init ==
    /\ db = {}
    /\ now \in ClockValues
    /\ last = Response("none", 0, "", "", <<>>, "none", <<>>)
    /\ session = [w \in Writers |-> Idle]

\* the wall clock moves
Tick ==
    /\ \E t \in ClockValues \ {now} : now' = t
    /\ UNCHANGED <<db, last, session>>

\* PUT /<date>/<time>/<hostname>/<title>/
AddSnapshot ==
    \E timestamp \in TimeStamps, source \in Sources,
       csv_contents \in RawContents :
        LET hostname == source[1]
            title == source[2]
            r == add_snapshot(db, now, timestamp, hostname, title,
                              csv_contents)
        IN  /\ Cardinality(r.rows) <= MaxRows
            /\ db' = end_of_request(db, r.rows, r.error)
            /\ last' = Response("add", timestamp, hostname, title,
                                csv_contents, r.error, <<>>)
            /\ UNCHANGED <<now, session>>

\* GET /<date>/<time>/<hostname>/<title>/
ViewSnapshot ==
    \E timestamp \in TimeStamps, source \in Sources :
        LET hostname == source[1]
            title == source[2]
            r == get_snapshot_contents(db, timestamp, hostname, title)
        IN  /\ last' = Response("get", timestamp, hostname, title, <<>>,
                                r.error, r.value)
            /\ db' = end_of_request(db, rows_after_read(db, now), r.error)
            /\ UNCHANGED <<now, session>>

\* GET /
ListDays ==
    /\ last' = Response("days", 0, "", "", <<>>, "none", get_all_days(db))
    /\ db' = end_of_request(db, rows_after_read(db, now), "none")
    /\ UNCHANGED <<now, session>>

\* GET /<date>/
ListTimes ==
    \E day \in Days :
        /\ last' = Response("times", day * DAY, "", "", <<>>, "none",
                            get_timestamps(db, day))
        /\ db' = end_of_request(db, rows_after_read(db, now), "none")
        /\ UNCHANGED <<now, session>>

\* GET /<date>/<time>/
ListSnapshots ==
    \E timestamp \in TimeStamps :
        /\ last' = Response("at", timestamp, "", "", <<>>, "none",
                            get_snapshot_info_at_time(db, timestamp))
        /\ db' = end_of_request(db, rows_after_read(db, now), "none")
        /\ UNCHANGED <<now, session>>

Next ==
    \/ Tick
    \/ AddSnapshot
    \/ ViewSnapshot
    \/ ListDays
    \/ ListTimes
    \/ ListSnapshots

Spec == Init /\ [][Next]_vars

(***************************************************************************)
(* Request bodies of every kind: a body of Bodies is PUT into a new       *)
(* store, and what the store holds is PUT again as another snapshot.      *)
(***************************************************************************)
\* PUT /<date>/<time>/myhost/some stuff/ with a body of Bodies, the first
\* request a new store gets
PutBody ==
    /\ db = {}
    /\ \E csv_contents \in Bodies :
        LET r == add_snapshot(db, now, DAY, "myhost", "some stuff",
                              csv_contents)
        IN  /\ db' = end_of_request(db, r.rows, r.error)
            /\ last' = Response("add", DAY, "myhost", "some stuff",
                                csv_contents, r.error, <<>>)
    /\ UNCHANGED <<now, session>>

\* PUT /<date>/<time>/myhost/other stuff/ with the contents of a live
\* snapshot as its body
PutContents ==
    /\ \E s \in db :
        LET r == add_snapshot(db, now, s.timestamp, "myhost", "other stuff",
                              s.contents)
        IN  /\ Cardinality(r.rows) <= MaxRows
            /\ db' = end_of_request(db, r.rows, r.error)
            /\ last' = Response("add", s.timestamp, "myhost", "other stuff",
                                s.contents, r.error, <<>>)
    /\ UNCHANGED <<now, session>>

NormalizeNext ==
    \/ PutBody
    \/ PutContents

NormalizeSpec == Init /\ [][NormalizeNext]_vars

(***************************************************************************)
(* Requests served concurrently, each in a session of its own.  The       *)
(* engine (SQLite) lets one session write at a time: the INSERT of        *)
(* session.flush() takes the write lock, waiting for it while another     *)
(* session holds it, and commit or rollback gives it back; until the      *)
(* commit the other sessions read the committed rows.                     *)
(***************************************************************************)
\* a session in autocommit mode: what it flushes is committed at once
flushed_store_autocommit(committed, pending) == pending

\* what the other sessions read after a session has flushed: session.flush()
\* writes inside the transaction and commits nothing
flushed_store(committed, pending) == committed

\* some session holds the write lock
Locked == \E w \in Writers : session[w].pc \in {"flushed", "swept"}

\* add_snapshot up to session.flush(): the INSERT takes the write lock, or
\* violates the unique constraint and the request is rolled back
Flush(w) ==
    /\ session[w].pc = "idle"
    /\ ~Locked
    /\ \E timestamp \in RaceTimeStamps, source \in RaceSources,
          csv_contents \in RawContents :
        LET hostname == source[1]
            title == source[2]
        IN  IF UniqueConstraintViolated(db, timestamp, hostname, title)
            THEN /\ session' = [session EXCEPT ![w] =
                        Session("done", timestamp, hostname, title,
                                csv_contents, {}, 0,
                                "DuplicateSnapshotError")]
                 /\ db' = rollback(db, db)
            ELSE LET rows == flush(db, timestamp, hostname, title,
                                   cleaned_csv_contents(csv_contents))
                 IN  /\ session' = [session EXCEPT ![w] =
                            Session("flushed", timestamp, hostname, title,
                                    csv_contents, rows, 0, "none")]
                     /\ db' = flushed_store(db, rows)
    /\ UNCHANGED <<now, last>>

\* _clean_old_snapshots inside the transaction
Sweep(w) ==
    /\ session[w].pc = "flushed"
    /\ session' = [session EXCEPT ![w] =
            [@ EXCEPT !.pc = "swept",
                      !.oldest_allowed_timestamp = now - HORIZON,
                      !.rows = clean_old_snapshots(@, now)]]
    /\ db' = flushed_store(db, session'[w].rows)
    /\ UNCHANGED <<now, last>>

\* the handler returned: session.commit()
Commit(w) ==
    /\ session[w].pc = "swept"
    /\ session' = [session EXCEPT ![w] = [@ EXCEPT !.pc = "done"]]
    /\ db' = commit(db, session[w].rows)
    /\ UNCHANGED <<now, last>>

ConcurrentNext ==
    \/ Tick
    \/ \E w \in Writers : Flush(w)
    \/ \E w \in Writers : Sweep(w)
    \/ \E w \in Writers : Commit(w)

ConcurrentSpec == Init /\ [][ConcurrentNext]_vars

(***************************************************************************)
(* Properties of the store, requests served one at a time (Spec).         *)
(***************************************************************************)
SameKey(s, timestamp, hostname, title) ==
    /\ s.timestamp = timestamp
    /\ s.hostname = hostname
    /\ s.title = title

\* the live snapshots with the key of request r
Stored(rows, r) == {s \in rows : SameKey(s, r.timestamp, r.hostname, r.title)}

\* the live snapshots of the hostname and title of request r in the window
\* that starts at its timestamp
Matching(rows, r) ==
    {s \in rows : /\ s.hostname = r.hostname
                  /\ s.title = r.title
                  /\ r.timestamp <= s.timestamp
                  /\ s.timestamp < r.timestamp + WINDOW}

\* the step is an add request, and one that succeeded
AddStep == last'.op = "add" /\ now' = now
AddSucceeds == AddStep /\ last'.error = "none"

\* '&#128520;'
Escaped1F608 == <<38, 35, 49, 50, 56, 53, 50, 48, 59>>

\* C1: in every reachable state no two live snapshots have the same
\* (timestamp, hostname, title).
C1_UniqueTriple ==
    \A s1, s2 \in db :
        SameKey(s1, s2.timestamp, s2.hostname, s2.title) => s1 = s2

\* two snapshots are live and an add has just been rejected as a duplicate
C1_Witness ==
    /\ Cardinality(db) = 2
    /\ last.op = "add"
    /\ last.error = "DuplicateSnapshotError"

\* the step is an add with the key of the successful add right before it
SecondAdd ==
    /\ last.op = "add"
    /\ last.error = "none"
    /\ AddStep
    /\ SameKey(last', last.timestamp, last.hostname, last.title)

\* C2 as claimed: after a successful add, a second add with the same triple
\* fails with DuplicateError and getContents still returns the normalized
\* contents of the first.
C2_Original ==
    [][SecondAdd =>
        /\ last'.error = "DuplicateSnapshotError"
        /\ get_snapshot_contents(db', last.timestamp, last.hostname,
                                 last.title)
             = [error |-> "none",
                value |-> cleaned_csv_contents(last.csv_contents)]]_vars

\* C2 amended: after a successful add whose snapshot is live (it was not
\* older than the horizon at that add), a second add with the same triple
\* fails with DuplicateError, changes nothing, and the snapshot still holds
\* the normalized contents of the first add; getContents returns them unless
\* another live snapshot of that hostname and title lies in the window, and
\* then it fails with MultipleResultsFound.
C2_DuplicateRejected ==
    [][(SecondAdd /\ Stored(db, last) # {}) =>
        /\ last'.error = "DuplicateSnapshotError"
        /\ db' = db
        /\ \A s \in Stored(db', last) :
               s.contents = cleaned_csv_contents(last.csv_contents)
        /\ LET r == get_snapshot_contents(db', last.timestamp,
                                          last.hostname, last.title)
           IN  IF Cardinality(Matching(db', last)) = 1
               THEN r = [error |-> "none",
                         value |-> cleaned_csv_contents(last.csv_contents)]
               ELSE r.error = "MultipleResultsFound"]_vars

\* a second add with other contents was rejected and the read still returns
\* the contents of the first
C2_Witness ==
    /\ last.op = "add"
    /\ last.error = "DuplicateSnapshotError"
    /\ last.csv_contents = <<104, 105>>
    /\ get_snapshot_contents(db, last.timestamp, last.hostname, last.title)
         = [error |-> "none", value |-> Escaped1F608]

C4_SweepAtHorizon ==
    [][AddSucceeds =>
        /\ \A s \in db' : s.timestamp >= now - HORIZON
        /\ \A s \in db : s.timestamp >= now - HORIZON => s \in db'
        /\ \A s \in db : s.timestamp < now - HORIZON => s \notin db']_vars

\* after a successful add a snapshot of another key, exactly 14 days old,
\* is live beside the added one, and nothing older is
C4_Witness ==
    /\ last.op = "add"
    /\ last.error = "none"
    /\ Stored(db, last) # {}
    /\ \E s \in db \ Stored(db, last) : s.timestamp = now - HORIZON
    /\ \A s \in db : s.timestamp >= now - HORIZON

\* C5: the set of live snapshots and their contents change only in an add
\* that succeeds: not in a read, a move of the clock or a rejected add.
C5_OnlyAddWrites == [][db' # db => AddSucceeds]_vars

\* an add has been rejected as a duplicate and a snapshot older than the
\* horizon is live
C5_Witness ==
    /\ last.op = "add"
    /\ last.error = "DuplicateSnapshotError"
    /\ \E s \in db : s.timestamp < now - HORIZON

Query(timestamp, source) ==
    [timestamp |-> timestamp, hostname |-> source[1], title |-> source[2]]

\* C6 as claimed: for every query at most one live snapshot has the
\* hostname, the title and a timestamp in [t, t + 60 s).
C6_Original ==
    \A t \in TimeStamps, source \in Sources :
        Cardinality(Matching(db, Query(t, source))) <= 1

\* C6 amended: for every query the live snapshots of the hostname and the
\* title in [t, t + 60 s) have pairwise different timestamps, and
\* getContents hits the more-than-one case exactly when two of them were
\* written less than 60 s apart.
C6_MatchesDifferInTime ==
    \A t \in TimeStamps, source \in Sources :
        LET m == Matching(db, Query(t, source))
        IN  /\ \A s1, s2 \in m : s1.timestamp = s2.timestamp => s1 = s2
            /\ get_snapshot_contents(db, t, source[1], source[2]).error
                 = "MultipleResultsFound"
               <=> \E s1, s2 \in m : s1.timestamp # s2.timestamp

\* a getContents has failed on two matches
C6_Witness ==
    /\ last.op = "get"
    /\ last.error = "MultipleResultsFound"
    /\ Cardinality(Matching(db, last)) = 2

\* C9: a step leaves every snapshot that stays live as it is; a snapshot
\* appears only as the one a successful add inserts, with the normalized
\* contents of that add, and disappears only in the sweep of a successful
\* add, when it is older than now - 14 days.
C9_WriteOnce ==
    [][/\ \A s \in db : \A n \in db' :
            SameKey(n, s.timestamp, s.hostname, s.title) => n = s
       /\ db' \ db # {} =>
            /\ AddSucceeds
            /\ db' \ db = {Snapshot(last'.timestamp, last'.hostname,
                                    last'.title,
                                    cleaned_csv_contents(last'.csv_contents))}
       /\ db \ db' # {} =>
            /\ AddSucceeds
            /\ \A s \in db \ db' : s.timestamp < now - HORIZON]_vars

\* a duplicate with other contents was rejected while two snapshots are
\* live, one of them with the contents of the first add of that key
C9_Witness ==
    /\ last.op = "add"
    /\ last.error = "DuplicateSnapshotError"
    /\ Cardinality(db) = 2
    /\ \E s \in Stored(db, last) :
           s.contents # cleaned_csv_contents(last.csv_contents)

\* C10: getContents returns the contents of the one live snapshot of the
\* hostname and title in [t, t + 60 s) when there is exactly one, fails
\* with NoResultFound when there is none and with MultipleResultsFound when
\* there are several.
C10_ExactlyOne ==
    last.op = "get" =>
        LET m == Matching(db, last)
        IN  /\ m = {} => last.error = "NoResultFound"
            /\ Cardinality(m) > 1 => last.error = "MultipleResultsFound"
            /\ Cardinality(m) = 1 =>
                 /\ last.error = "none"
                 /\ \A s \in m : last.value = s.contents
            /\ last.error # "none" => last.value = <<>>

\* a getContents at 30 s before a snapshot returned its contents although
\* another snapshot of the hostname and title lies outside the window
C10_Witness ==
    /\ last.op = "get"
    /\ last.error = "none"
    /\ last.value = Escaped1F608
    /\ \E s \in db : /\ s.hostname = last.hostname
                     /\ s.title = last.title
                     /\ s.timestamp = last.timestamp + WINDOW

(***************************************************************************)
(* Properties of concurrent requests (ConcurrentSpec).                     *)
(***************************************************************************)
Done(w) == session[w].pc = "done"
Committed(w) == Done(w) /\ session[w].error = "none"

\* the finished writers that asked for the triple of writer w
Rivals(w) ==
    {v \in Writers :
        /\ Done(v)
        /\ SameKey(session[v], session[w].timestamp, session[w].hostname,
                   session[w].title)}

SweptAway(w) ==
    \E v \in Writers :
        /\ Committed(v)
        /\ session[w].timestamp < session[v].oldest_allowed_timestamp

Ends(w) == session[w].pc # "done" /\ session'[w].pc = "done"

\* C8: the committed store changes only in the step that commits a write,
\* and then to the rows before it with both the insert and the sweep of
\* that write applied; a step that ends a request in an error leaves the
\* committed store as it is.
C8_UnitOfWork ==
    [][/\ db' # db =>
            \E w \in Writers :
                /\ session[w].pc = "swept"
                /\ Ends(w)
                /\ session'[w].error = "none"
                /\ db' = {s \in db \cup
                                {Snapshot(session[w].timestamp,
                                          session[w].hostname,
                                          session[w].title,
                                          cleaned_csv_contents(
                                              session[w].csv_contents))} :
                            ~(s.timestamp <
                                session[w].oldest_allowed_timestamp)}
       /\ \A w \in Writers :
            (Ends(w) /\ session'[w].error # "none") => db' = db]_vars

\* a writer has inserted and swept but not committed: the committed store
\* still holds the snapshot its sweep deletes and not the one it inserted
C8_Witness ==
    \E w \in Writers :
        /\ session[w].pc = "swept"
        /\ \E s \in db : s \notin session[w].rows
        /\ \E s \in session[w].rows : s \notin db

(***************************************************************************)
(* Properties of the browse queries, requests served one at a time (Spec). *)
(***************************************************************************)
Range(seq) == {seq[i] : i \in 1..Len(seq)}

StrictlyAscending(seq) ==
    \A i, j \in 1..Len(seq) : i < j => seq[i] < seq[j]

\* the live snapshots of calendar day d
OnDay(rows, d) ==
    {s \in rows : d * DAY <= s.timestamp /\ s.timestamp < (d + 1) * DAY}

\* m is the start of the minute of some snapshot of rows
MinuteOf(rows, m) ==
    /\ m % 60 = 0
    /\ \E s \in rows : m <= s.timestamp /\ s.timestamp < m + 60

\* listing is the strictly ascending sequence of the minutes of the live
\* snapshots of day d
IsListMinutes(listing, rows, d) ==
    /\ StrictlyAscending(listing)
    /\ \A m \in Range(listing) : MinuteOf(OnDay(rows, d), m)
    /\ \A s \in OnDay(rows, d) :
           \E m \in Range(listing) : m <= s.timestamp /\ s.timestamp < m + 60

\* C11: in every reachable state and for every day d, listMinutes(d) is the
\* strictly ascending, duplicate-free sequence of the timestamps, truncated
\* to the minute, of the live snapshots with d 00:00:00 <= timestamp <
\* (d + 1) 00:00:00: snapshots of one minute give one entry, a day without
\* snapshots the empty sequence; and that is what a request for the
\* minutes of a day is answered.
C11_ListMinutes ==
    /\ \A d \in Days :
           /\ IsListMinutes(get_timestamps(db, d), db, d)
           /\ OnDay(db, d) = {} => get_timestamps(db, d) = <<>>
    /\ last.op = "times" =>
           IsListMinutes(last.value, db, last.timestamp \div DAY)

\* the minutes of day 0 were asked for while snapshots of 00:00:00 and
\* 00:00:30 are live, and the answer is the one entry 00:00
C11_Witness ==
    /\ last.op = "times"
    /\ last.timestamp = 0
    /\ last.value = <<0>>
    /\ \E s1, s2 \in db : s1.timestamp = 0 /\ s2.timestamp = 30

\* pair a of hostname and title is pair b or comes before it, by hostname
\* and then by title
PairOrdered(a, b) ==
    \/ Rank(a[1]) < Rank(b[1])
    \/ a[1] = b[1] /\ Rank(a[2]) <= Rank(b[2])

\* listing holds the (hostname, title) of every snapshot of rows in
\* [t, t + 60 s), once per snapshot, and nothing else, in ascending order
IsListAt(listing, rows, t) ==
    LET window == {s \in rows : t <= s.timestamp /\ s.timestamp < t + WINDOW}
    IN  /\ \A i \in 1..Len(listing) :
               \E s \in window : listing[i] = <<s.hostname, s.title>>
        /\ \A s \in window :
               Cardinality({i \in 1..Len(listing) :
                               listing[i] = <<s.hostname, s.title>>})
                 = Cardinality({r \in window : /\ r.hostname = s.hostname
                                               /\ r.title = s.title})
        /\ \A i, j \in 1..Len(listing) :
               i < j => PairOrdered(listing[i], listing[j])

\* C12: in every reachable state and for every timestamp t, listAt(t) has
\* one (hostname, title) entry for each live snapshot with a timestamp in
\* [t, t + 60 s) and no other entry (a snapshot at t + 60 s or before t is
\* left out), in ascending order of hostname and then title; a pair appears
\* once per matching snapshot, so twice when two snapshots in the window
\* differ in their timestamp only.
C12_ListAt ==
    /\ \A t \in TimeStamps :
           IsListAt(get_snapshot_info_at_time(db, t), db, t)
    /\ last.op = "at" => IsListAt(last.value, db, last.timestamp)

\* the snapshots at 00:00:00 were asked for and the answer holds one pair
\* twice, for the snapshots at 00:00:00 and 00:00:30
C12_Witness ==
    /\ last.op = "at"
    /\ last.timestamp = 0
    /\ Len(last.value) = 2
    /\ last.value[1] = last.value[2]

\* listing is the strictly ascending sequence of the days on which rows has
\* a snapshot
IsListDays(listing, rows) ==
    /\ StrictlyAscending(listing)
    /\ \A d \in Range(listing) : OnDay(rows, d) # {}
    /\ \A s \in rows : \E d \in Range(listing) : s \in OnDay(rows, d)

\* C13: in every reachable state listDays() is the strictly ascending,
\* duplicate-free sequence of the calendar dates of the live snapshots, and
\* that is what a request for the days is answered; a date that was listed
\* stops being listed in the successful add whose sweep deletes its last
\* snapshot, all of them older than now - 14 days, and in no other step.
C13_ListDays ==
    /\ [](/\ IsListDays(get_all_days(db), db)
          /\ last.op = "days" => IsListDays(last.value, db))
    /\ [][\A d \in Range(get_all_days(db)) :
             d \notin Range(get_all_days(db'))
               <=> /\ AddSucceeds
                   /\ \A s \in OnDay(db, d) : s.timestamp < now - HORIZON
                   /\ ~(/\ last'.timestamp >= now - HORIZON
                        /\ last'.timestamp \div DAY = d)]_vars

\* the days were asked for and both are listed, in order, day 0 although
\* its snapshot is older than now - 14 days: no add has swept it yet
C13_Witness ==
    /\ last.op = "days"
    /\ last.value = <<0, 1>>
    /\ now = HORIZON + DAY

\* C15: the three levels of browsing agree in every reachable state: every
\* live snapshot (t, h, title) has its date in listDays(), its minute in
\* listMinutes of that date and (h, title) in listAt of that minute, also
\* when t has seconds; and every date of listDays() has minutes in
\* listMinutes, each of them on that date and with entries in listAt.
C15_BrowseLevelsAgree ==
    /\ \A s \in db :
           \E d \in Range(get_all_days(db)) :
               /\ d * DAY <= s.timestamp /\ s.timestamp < (d + 1) * DAY
               /\ \E m \in Range(get_timestamps(db, d)) :
                      /\ m % 60 = 0
                      /\ m <= s.timestamp /\ s.timestamp < m + 60
                      /\ <<s.hostname, s.title>>
                            \in Range(get_snapshot_info_at_time(db, m))
    /\ \A d \in Range(get_all_days(db)) :
           /\ get_timestamps(db, d) # <<>>
           /\ \A m \in Range(get_timestamps(db, d)) :
                  /\ d * DAY <= m /\ m < (d + 1) * DAY
                  /\ get_snapshot_info_at_time(db, m) # <<>>

\* the snapshots at 00:00 were asked for and the answer lists the one
\* written at 00:00:30, while none is live at 00:00:00
C15_Witness ==
    /\ last.op = "at"
    /\ last.timestamp = 0
    /\ \A s \in db : s.timestamp # 0
    /\ \E s \in db : /\ s.timestamp = 30
                      /\ <<s.hostname, s.title>> \in Range(last.value)
    /\ get_timestamps(db, 0) = <<0>>

\* C16: the sweep that ends a successful add also applies to the snapshot
\* that add has inserted: when its timestamp is older than now - 14 days
\* the add has succeeded but its snapshot is not live afterwards, so that
\* the same add, repeated, succeeds again, every time, and is never
\* rejected as a duplicate; when the timestamp is not older than now - 14
\* days the snapshot is live after the add.
C16_SweepsOwnInsert ==
    [][/\ AddSucceeds =>
            IF last'.timestamp < now - HORIZON
            THEN Stored(db', last') = {}
            ELSE Stored(db', last') =
                   {Snapshot(last'.timestamp, last'.hostname, last'.title,
                             cleaned_csv_contents(last'.csv_contents))}
       /\ (SecondAdd /\ Stored(db, last) = {}) =>
            /\ last'.error = "none"
            /\ last'.timestamp < now - HORIZON => Stored(db', last') = {}]_vars

\* an add of a timestamp older than now - 14 days has succeeded and its
\* snapshot is not live, beside a snapshot that is
C16_Witness ==
    /\ last.op = "add"
    /\ last.error = "none"
    /\ last.timestamp < now - HORIZON
    /\ Stored(db, last) = {}
    /\ db # {}

(***************************************************************************)
(* Properties of the stored contents (NormalizeSpec).                      *)
(***************************************************************************)
Ascii(text) == \A i \in 1..Len(text) : text[i] >= 0 /\ text[i] < 128

\* '&#233;' and '&#65533;'
Escaped00E9 == <<38, 35, 50, 51, 51, 59>>
EscapedFFFD == <<38, 35, 54, 53, 53, 51, 51, 59>>

StartsWith(bytes, piece) ==
    /\ Len(piece) <= Len(bytes)
    /\ SubSeq(bytes, 1, Len(piece)) = piece

\* the longest piece bytes starts with, or its first byte when that is ASCII
FirstPiece(bytes) ==
    IF bytes[1] < 128 THEN <<bytes[1]>>
    ELSE CHOOSE p \in Pieces :
             /\ StartsWith(bytes, p)
             /\ \A q \in Pieces : StartsWith(bytes, q) => Len(q) <= Len(p)

\* what a piece is stored as: an ASCII character as it is, U+00E9 and
\* U+1F608 as their decimal character references, and a piece that is not
\* valid UTF-8 as the reference of the replacement character
EscapeOf(piece) ==
    IF Len(piece) = 1 /\ piece[1] < 128 THEN piece
    ELSE IF piece = <<195, 169>> THEN Escaped00E9
    ELSE IF piece = <<240, 159, 152, 136>> THEN Escaped1F608
    ELSE EscapedFFFD

RECURSIVE Expected(_)
Expected(bytes) ==
    IF bytes = <<>> THEN <<>>
    ELSE LET piece == FirstPiece(bytes)
         IN  EscapeOf(piece)
             \o Expected(SubSeq(bytes, Len(piece) + 1, Len(bytes)))

\* C14: in every reachable state the contents of every live snapshot are
\* ASCII only: a successful add has stored each ASCII character of its
\* body as it is, each character outside ASCII as '&#', its code point in
\* decimal and ';' (U+1F608 as '&#128520;'), and each byte sequence that is
\* not valid UTF-8 as '&#65533;'; a body that is ASCII, such as contents
\* already stored, is stored unchanged.
C14_AsciiOnly ==
    /\ \A s \in db : Ascii(s.contents)
    /\ (last.op = "add" /\ last.error = "none") =>
          /\ Stored(db, last) # {}
          /\ \A s \in Stored(db, last) :
                 /\ s.contents = Expected(last.csv_contents)
                 /\ Ascii(last.csv_contents) =>
                        s.contents = last.csv_contents

\* the body 'h', U+1F608, FF has been stored as 'h&#128520;&#65533;'
C14_Witness ==
    /\ last.op = "add"
    /\ last.error = "none"
    /\ last.csv_contents = <<104, 240, 159, 152, 136, 255>>
    /\ \E s \in Stored(db, last) :
           s.contents = <<104>> \o Escaped1F608 \o EscapedFFFD

=============================================================================
